---- MODULE Spec2Model ----
(***************************************************************************)
(* Model of dashboard.py: the Textual dashboard that polls the             *)
(* synchronizers endpoint, sorts the records by name, rebuilds the grid of *)
(* cards in rows of three and shows a countdown to the next refresh.       *)
(*                                                                         *)
(* Time is counted in units of 1/UnitsPerSecond second, and every time the  *)
(* program holds is kept as its distance from the current time.time(): a   *)
(* deadline d is the number d - time.time(), which shrinks as time passes. *)
(* Strings are sequences of code points, so that Python's string order and *)
(* str() are computed and not assumed.                                     *)
(***************************************************************************)
EXTENDS Integers, Sequences, FiniteSets, TLC

VARIABLES
    app,                 \* "init"; on_mount at an await: "mount_header",
                         \* "mount_body", "mount_footer", "mounting" (the
                         \* initial refresh); "running", "crashed", "closed"
    key,                 \* self.key
    client,              \* self.client: "open" or "closed"
    subtitleSupported,   \* the build: TextualHeader exists and has sub_title
    removeDetaches,      \* the build: a removed widget leaves its parent at the
                         \* "call" of remove() or when its "await" ends
    next_refresh_epoch,  \* self.next_refresh_epoch - time.time()
    remaining,           \* self.footer.remaining
    sub_title,           \* self.header.sub_title: a string, or what was assigned
    body,                \* self.body.children: the rows and their cards
    tasks,               \* the refresh_widgets invocations in flight
    refresh_timer,       \* time to the next fire of set_interval(REFRESH_EVERY, ..)
    tick_timer,          \* time to the next fire of set_interval(1.0, _tick)
    last                 \* history: the refresh_widgets invocation that ended last

vars == <<app, key, client, subtitleSupported, removeDetaches,
          next_refresh_epoch, remaining, sub_title, body, tasks, refresh_timer,
          tick_timer, last>>

(***************************************************************************)
(* Program constants                                                       *)
(***************************************************************************)
REFRESH_EVERY == 60

\* FetchTimeout of a client whose timeout is as long as the refresh period
FetchTimeoutWholePeriod == REFRESH_EVERY

\* timeout=10 of the request in fetch_synchronizers, in seconds
FetchTimeout == 10

RowWidth == 3

(***************************************************************************)
(* Bounds of the model                                                     *)
(***************************************************************************)
\* time units per second
UnitsPerSecond == 2

\* longest synchronizers array of the layout inputs
MaxLong == 7

\* longest synchronizers array of the sorting inputs
MaxSort == 3

\* most time units a timer fires late
MaxLate == 1

\* most time units the removals and mounts of one invocation take together
MaxRender == 1

(***************************************************************************)
(* Strings: sequences of code points                                       *)
(***************************************************************************)
EmptyStr == << >>

\* "Alpha", "Beta", "a" and the wallet "0xABC"
StrAlpha == <<65, 108, 112, 104, 97>>

StrBeta == <<66, 101, 116, 97>>

StrLowerA == <<97>>

StrWallet == <<48, 120, 65, 66, 67>>

\* the key given on the command line: "k1"
ApiKey == <<107, 49>>

\* str(True), str(False), str(None) and the placeholder em-dash
StrTrue == <<84, 114, 117, 101>>

StrFalse == <<70, 97, 108, 115, 101>>

StrNone == <<78, 111, 110, 101>>

Placeholder == <<8212>>

\* Python's str < str: the first differing code point decides, a proper
\* prefix is smaller.
RECURSIVE StrLess(_, _)
StrLess(s, t) ==
    IF t = << >> THEN FALSE
    ELSE IF s = << >> THEN TRUE
    ELSE IF Head(s) # Head(t) THEN Head(s) < Head(t)
    ELSE StrLess(Tail(s), Tail(t))

(***************************************************************************)
(* JSON values, records and responses                                      *)
(***************************************************************************)
\* A JSON value of a field: absent, null, a boolean or a string.
Missing == [t |-> "missing", s |-> << >>]

Null == [t |-> "null", s |-> << >>]

True == [t |-> "true", s |-> << >>]

False == [t |-> "false", s |-> << >>]

Str(s) == [t |-> "str", s |-> s]

Fields == <<"id", "key", "name", "isEnabled">>

\* An entry of `synchronizers`: a JSON object, or something else (a number).
Obj(id, k, name, en) ==
    [obj |-> TRUE, id |-> id, key |-> k, name |-> name, isEnabled |-> en]

NonObj ==
    [obj |-> FALSE, id |-> Missing, key |-> Missing, name |-> Missing,
     isEnabled |-> Missing]

NoSyncs == [t |-> "absent", items |-> << >>]

NullSyncs == [t |-> "null", items |-> << >>]

Array(items) == [t |-> "array", items |-> items]

NoOwner == [t |-> "absent", walletAddress |-> Missing]

BadOwner == [t |-> "other", walletAddress |-> Missing]

Owner(w) == [t |-> "object", walletAddress |-> w]

\* The outcome of client.get(): an exception, a non-2xx status, a body that
\* is not JSON, or a JSON body.
Failure(kind) ==
    [kind |-> kind, top |-> "other", success |-> "absent",
     synchronizers |-> NoSyncs, owner |-> NoOwner]

Json(success, syncs, owner) ==
    [kind |-> "json", top |-> "object", success |-> success,
     synchronizers |-> syncs, owner |-> owner]

JsonOther == [Failure("json") EXCEPT !.top = "other"]

NoResp == Failure("pending")

(***************************************************************************)
(* fetch_synchronizers                                                     *)
(***************************************************************************)
\* dict.get(field, default)
Get(item, field, default) ==
    IF item[field].t = "missing" THEN default ELSE item[field]

\* TryBody without the test of `success`
TryBodyNoSuccessTest(resp) ==
    IF resp.kind # "json" \/ resp.top # "object" \/ resp.owner.t = "other"
    THEN [out |-> "raise", syncs |-> NoSyncs, wallet |-> Null]
    ELSE [out |-> "return",
          syncs |-> IF resp.synchronizers.t = "absent" THEN Array(<< >>)
                    ELSE resp.synchronizers,
          wallet |-> IF resp.owner.walletAddress.t = "missing" THEN Null
                     ELSE resp.owner.walletAddress]

\* What the try block does: it raises, returns a pair, or falls through.
TryBody(resp) ==
    IF resp.kind # "json"
    THEN [out |-> "raise", syncs |-> NoSyncs, wallet |-> Null]  \* get, raise_for_status, json
    ELSE IF resp.top # "object"
    THEN [out |-> "raise", syncs |-> NoSyncs, wallet |-> Null]  \* data.get
    ELSE IF resp.success # "true"
    THEN [out |-> "fall", syncs |-> NoSyncs, wallet |-> Null]
    ELSE IF resp.owner.t = "other"
    THEN [out |-> "raise", syncs |-> NoSyncs, wallet |-> Null]  \* owner.get
    ELSE [out |-> "return",
          syncs |-> IF resp.synchronizers.t = "absent" THEN Array(<< >>)
                    ELSE resp.synchronizers,
          wallet |-> IF resp.owner.walletAddress.t = "missing" THEN Null
                     ELSE resp.owner.walletAddress]

\* fetch_synchronizers without the except clause
FetchPropagates(resp) ==
    LET b == TryBody(resp)
    IN  IF b.out = "return"
        THEN [raised |-> FALSE, syncs |-> b.syncs, wallet |-> b.wallet]
        ELSE [raised |-> b.out = "raise", syncs |-> Array(<< >>), wallet |-> Null]

\* The pair fetch_synchronizers returns (wallet Null is None); `except
\* Exception` catches whatever the try block raises.
fetch_synchronizers(resp) ==
    LET b == TryBody(resp)
    IN  IF b.out = "return"
        THEN [raised |-> FALSE, syncs |-> b.syncs, wallet |-> b.wallet]
        ELSE [raised |-> FALSE, syncs |-> Array(<< >>), wallet |-> Null]

(***************************************************************************)
(* sorted(syncs, key=lambda s: s.get("name", ""))                          *)
(***************************************************************************)
SortKey(item) == Get(item, "name", Str(EmptyStr))

\* u < v is defined: for two strings and for two booleans, not for None
Comparable(u, v) ==
    \/ u.t = "str" /\ v.t = "str"
    \/ u.t \in {"true", "false"} /\ v.t \in {"true", "false"}

\* key(a) < key(b), for comparable keys: strings by code points, False
\* before True
KeyLess(a, b) ==
    IF SortKey(a).t = "str" THEN StrLess(SortKey(a).s, SortKey(b).s)
    ELSE SortKey(a).t = "false" /\ SortKey(b).t = "true"

\* sorted() raises: the value is not iterable, an entry has no .get, or,
\* among two entries or more, two keys are not comparable (every entry is
\* compared with another one).
SortRaises(syncs) ==
    \/ syncs.t # "array"
    \/ \E i \in 1..Len(syncs.items) : ~syncs.items[i].obj
    \/ \E i, j \in 1..Len(syncs.items) :
          i # j /\ ~Comparable(SortKey(syncs.items[i]), SortKey(syncs.items[j]))

\* Insert putting x before the entries of equal key: an unstable sort
RECURSIVE InsertBeforeEqual(_, _)
InsertBeforeEqual(x, seq) ==
    IF seq = << >> THEN <<x>>
    ELSE IF ~KeyLess(Head(seq), x) THEN <<x>> \o seq
    ELSE <<Head(seq)>> \o InsertBeforeEqual(x, Tail(seq))

\* x put behind every entry whose key is not greater: a stable insertion
RECURSIVE Insert(_, _)
Insert(x, seq) ==
    IF seq = << >> THEN <<x>>
    ELSE IF KeyLess(x, Head(seq)) THEN <<x>> \o seq
    ELSE <<Head(seq)>> \o Insert(x, Tail(seq))

RECURSIVE Sorted(_)
Sorted(items) ==
    IF items = << >> THEN << >>
    ELSE Insert(items[Len(items)], Sorted(SubSeq(items, 1, Len(items) - 1)))

(***************************************************************************)
(* SynchronizerWidget.render                                               *)
(***************************************************************************)
\* str(value)
PyStr(v) ==
    CASE v.t = "str" -> v.s
      [] v.t = "true" -> StrTrue
      [] v.t = "false" -> StrFalse
      [] OTHER -> StrNone

\* Render with `get(field) or placeholder`: a false or empty value shows
\* as the placeholder
RenderOr(data) ==
    [i \in 1..Len(Fields) |->
        IF data[Fields[i]].t \in {"missing", "null", "false"}
           \/ data[Fields[i]] = Str(EmptyStr)
        THEN Placeholder ELSE PyStr(data[Fields[i]])]

\* the value column of the card's table, one line per field
Render(data) ==
    [i \in 1..Len(Fields) |-> PyStr(Get(data, Fields[i], Str(Placeholder)))]

(***************************************************************************)
(* The responses the model draws from                                      *)
(***************************************************************************)
SeqsUpTo(S, n) == UNION {[1..m -> S] : m \in 0..n}

\* "1", "2" and "k"
StrOne == <<49>>

StrTwo == <<50>>

StrKey == <<107>>

Rec(id, name) == Obj(id, Missing, name, Missing)

RecAlpha == Rec(Str(StrOne), Str(StrAlpha))

RecBeta == Rec(Str(StrTwo), Str(StrBeta))

WithWallet == Owner(Str(StrWallet))

\* the four kinds of failed fetch of the error taxonomy
FailedResponses ==
    {Failure("transport"), Failure("timeout"), Failure("status"),
     Failure("badjson"), JsonOther,
     Json("false", Array(<<RecAlpha>>), WithWallet),
     Json("absent", Array(<<RecAlpha>>), WithWallet)}

\* success true in an envelope of another shape
MalformedResponses ==
    {Json("true", Array(<<RecAlpha>>), BadOwner),
     Json("true", NullSyncs, WithWallet),
     Json("true", Array(<<RecAlpha, NonObj>>), WithWallet),
     Json("true", Array(<<Rec(Str(StrOne), Null)>>), WithWallet),
     Json("true", Array(<<RecAlpha, Rec(Str(StrTwo), Null)>>), WithWallet)}

Successes(lists, owners) ==
    {Json("true", Array(l), o) : l \in lists, o \in owners}

\* What a fetch of the running application may receive: each kind of
\* failure, two envelopes of another shape, and three successes (no record;
\* the two records of the end-to-end scenario; four records, two rows).
TimedResponses ==
    {Failure("transport"), Failure("timeout"), Failure("status"),
     Failure("badjson"), Json("false", Array(<<RecAlpha>>), WithWallet),
     Json("true", Array(<<RecAlpha>>), BadOwner),
     Json("true", NullSyncs, WithWallet),
     Json("true", Array(<< >>), NoOwner),
     Json("true", Array(<<RecBeta, RecAlpha>>), WithWallet),
     Json("true", Array(<<RecBeta, RecAlpha, RecBeta, RecAlpha>>), NoOwner)}

(***************************************************************************)
(* The widget tree and the refresh_widgets coroutine                       *)
(***************************************************************************)
\* seconds to time units; int() of a time difference in seconds
Units(seconds) == seconds * UnitsPerSecond

PyInt(d) == IF d >= 0 THEN d \div UnitsPerSecond ELSE -((-d) \div UnitsPerSecond)

\* Max without the clamp: the second argument as it is
MaxUnclamped(a, b) == b

Max(a, b) == IF a >= b THEN a ELSE b

\* the value of a timer that is not set
NoTimer == Units(REFRESH_EVERY) + 1

\* a timer is set and due
Due(timer) == timer # NoTimer /\ timer <= 0

\* The time to the next fire of the refresh timer once its callback has
\* returned: the fires whose time has passed meanwhile are skipped, the
\* next one is at a later multiple of the period.
SkipMissed(timer) ==
    IF timer >= 0 THEN timer
    ELSE timer + ((Units(REFRESH_EVERY) - 1 - timer) \div Units(REFRESH_EVERY))
                 * Units(REFRESH_EVERY)

\* a fetch that takes half a second more than a refresh period
LongDelay == Units(REFRESH_EVERY) + Units(1) \div 2

\* How long a fetch may take: no time, half a second, the 10 s of the
\* timeout, 13.5 s, or more than a refresh period (a body that arrives in
\* pieces, none of them 10 s after the one before).
FetchDelays ==
    {0, Units(1) \div 2, Units(FetchTimeout), Units(FetchTimeout) + Units(7) \div 2,
     LongDelay}

\* A row is known by the invocation that made it and its number there; the
\* local `row` of _populate_sync_rows is the row numbered `rows`.
RowId(row) == [gen |-> row.gen, k |-> row.k]

\* SynchronizerWidget(sync): the card, its data and what it renders
SynchronizerWidget(sync) == [data |-> sync, shown |-> Render(sync)]

RemoveAt(seq, i) == SubSeq(seq, 1, i - 1) \o SubSeq(seq, i + 1, Len(seq))

\* body.children without the row `id`
RemoveRow(rows, id) ==
    LET keep == {j \in 1..Len(rows) : RowId(rows[j]) # id}
        F[j \in 0..Len(rows)] ==
            IF j = 0 THEN << >>
            ELSE IF j \in keep THEN Append(F[j - 1], rows[j]) ELSE F[j - 1]
    IN  F[Len(rows)]

\* the card mounted in the row `id`, when that row is displayed
MountCard(rows, id, card) ==
    [j \in 1..Len(rows) |->
        IF RowId(rows[j]) = id
        THEN [rows[j] EXCEPT !.cards = Append(@, card)]
        ELSE rows[j]]

\* the displayed cards, row by row
RECURSIVE CardsOf(_)
CardsOf(rows) ==
    IF rows = << >> THEN << >> ELSE Head(rows).cards \o CardsOf(Tail(rows))

\* a row identity no displayed row and no invocation in flight uses
FreshGen ==
    LET used == {body[j].gen : j \in 1..Len(body)} \cup {tasks[i].gen : i \in 1..Len(tasks)}
    IN  CHOOSE g \in 1..(Cardinality(used) + 1) :
            g \notin used /\ \A h \in 1..(g - 1) : h \in used

\* refresh_widgets awaiting its fetch; `snapshot` and `took` are history:
\* the rows that were displayed when the fetch returned, and the time the
\* fetch had taken by then.
NewTask(caller) ==
    [pc |-> "fetch", caller |-> caller, gen |-> FreshGen, elapsed |-> 0,
     took |-> 0, resp |-> NoResp, syncs |-> << >>, wallet |-> Null, children |-> << >>,
     snapshot |-> {}, idx |-> 0, rows |-> 0]

\* what `last` keeps of an invocation that ended as `how`; `cleared` is the
\* number of rows that were displayed when its fetch returned
Ended(t, how) ==
    [how |-> how, caller |-> t.caller, resp |-> t.resp, syncs |-> t.syncs,
     wallet |-> t.wallet, cleared |-> Cardinality(t.snapshot)]

NoneEnded ==
    [how |-> "none", caller |-> "none", resp |-> NoResp, syncs |-> << >>,
     wallet |-> Null, cleared |-> 0]

\* lines 173-176: the card of syncs[idx] is made and row.mount(widget) puts
\* it in the row at the call (if the row is still displayed); the invocation
\* awaits the mount.
MountWidget(t, b) ==
    [task |-> [t EXCEPT !.pc = "mount_card"],
     body |-> MountCard(b, [gen |-> t.gen, k |-> t.rows],
                        SynchronizerWidget(t.syncs[t.idx + 1]))]

\* NextCard that opens a row one card early
NextCardEarly(t, b) ==
    IF t.idx >= Len(t.syncs) THEN [task |-> [t EXCEPT !.pc = "done"], body |-> b]
    ELSE IF (t.idx + 1) % RowWidth = 0
    THEN [task |-> [t EXCEPT !.pc = "mount_row", !.rows = @ + 1],
          body |-> Append(b, [gen |-> t.gen, k |-> t.rows + 1, cards |-> << >>])]
    ELSE MountWidget(t, b)

\* _populate_sync_rows at the head of its loop, index idx: the loop ends, or
\* body.mount(row) puts a new row in the body at the call and is awaited,
\* or the next card goes into the current row.
NextCard(t, b) ==
    IF t.idx >= Len(t.syncs) THEN [task |-> [t EXCEPT !.pc = "done"], body |-> b]
    ELSE IF t.idx % RowWidth = 0
    THEN [task |-> [t EXCEPT !.pc = "mount_row", !.rows = @ + 1],
          body |-> Append(b, [gen |-> t.gen, k |-> t.rows + 1, cards |-> << >>])]
    ELSE MountWidget(t, b)

\* _populate_sync_rows from its entry
AfterClear(t, b) == NextCard([t EXCEPT !.idx = 0], b)

\* NextChild of a refresh that leaves the displayed rows in place
NextChildKept(t, b) == AfterClear(t, b)

\* NextChild that walks the live list of children: every removal shifts
\* the list and the child after the removed one is skipped
NextChildSkips(t, b) ==
    LET u == IF t.pc = "fetch" \/ t.children = << >> THEN t
             ELSE [t EXCEPT !.children = Tail(@)]
    IN  IF u.children # << >>
        THEN [task |-> [u EXCEPT !.pc = "remove"],
              body |-> IF removeDetaches = "call" THEN RemoveRow(b, Head(u.children))
                       ELSE b]
        ELSE AfterClear(u, b)

\* _clear_body at the head of its loop over the snapshot `children`:
\* child.remove() is called for the next child and awaited, and the child
\* leaves the body at the call or, in the other build, when the await ends;
\* after the last one _populate_sync_rows begins.
NextChild(t, b) ==
    IF t.children # << >>
    THEN [task |-> [t EXCEPT !.pc = "remove"],
          body |-> IF removeDetaches = "call" THEN RemoveRow(b, Head(t.children))
                   ELSE b]
    ELSE AfterClear(t, b)

\* The invocation i goes on as t: it suspends again, or it completes, sets
\* the deadline and the countdown and, called from on_mount, starts the
\* timers; called by the refresh timer, it lets the timer wait for its next
\* fire.
Continue(i, t) ==
    IF t.pc = "done"
    THEN /\ tasks' = RemoveAt(tasks, i)
         /\ last' = Ended(t, "done")
         /\ next_refresh_epoch' = Units(REFRESH_EVERY)
         /\ remaining' = REFRESH_EVERY
         /\ IF t.caller = "on_mount"
            THEN /\ app' = "running"
                 /\ refresh_timer' = Units(REFRESH_EVERY)
                 /\ tick_timer' = Units(1)
            ELSE /\ refresh_timer' = SkipMissed(refresh_timer)
                 /\ UNCHANGED <<app, tick_timer>>
    ELSE /\ tasks' = [tasks EXCEPT ![i] = t]
         /\ UNCHANGED <<next_refresh_epoch, remaining, app, refresh_timer, tick_timer,
                        last>>

\* on_mount suspended at the mount of the header, the body or the footer
OnMountAwaits == {"mount_header", "mount_body", "mount_footer"}

Alive == app \in OnMountAwaits \cup {"mounting", "running"}

\* The refresh timer is inside its callback: the refresh_widgets call it
\* made has not returned.  set_interval hands refresh_widgets to a Textual
\* Timer, whose loop awaits each call of the callback before it waits for
\* the next fire; the call on_mount makes itself is none of the timer's.
InCallback == \E i \in 1..Len(tasks) : tasks[i].caller = "timer"

\* bool(v): None, False and the empty string are false
Truthy(v) == v.t = "true" \/ (v.t = "str" /\ v.s # EmptyStr)

\* update_header_wallet that writes the subtitle only when there is a wallet
UpdateHeaderWalletIfAny(wallet) ==
    IF subtitleSupported /\ Truthy(wallet) THEN wallet ELSE sub_title

\* _update_header_wallet: the subtitle after it, `wallet or ""` where the
\* header has a subtitle (the wallet itself when it is true, a string or not)
update_header_wallet(wallet) ==
    IF subtitleSupported
    THEN (IF Truthy(wallet) THEN wallet ELSE Str(EmptyStr))
    ELSE sub_title

(***************************************************************************)
(* Actions                                                                 *)
(***************************************************************************)
Init ==
    /\ app = "init"
    /\ key = ApiKey
    /\ client = "open"
    /\ subtitleSupported \in BOOLEAN
    /\ removeDetaches \in {"call", "await"}
    /\ next_refresh_epoch = Units(REFRESH_EVERY)
    /\ remaining = REFRESH_EVERY
    /\ sub_title = Str(EmptyStr)
    /\ body = << >>
    /\ tasks = << >>
    /\ refresh_timer = NoTimer
    /\ tick_timer = NoTimer
    /\ last = NoneEnded

\* on_mount up to its first suspension: the header is made and
\* self.mount(self.header) is awaited.
OnMount ==
    /\ app = "init"
    /\ app' = "mount_header"
    /\ UNCHANGED <<key, client, subtitleSupported, removeDetaches,
                   next_refresh_epoch, remaining, sub_title,
                   body, tasks, refresh_timer, tick_timer, last>>

\* The await of the header's mount ends: the body is made and
\* self.mount(self.body) is awaited.
HeaderMounted ==
    /\ app = "mount_header"
    /\ app' = "mount_body"
    /\ UNCHANGED <<key, client, subtitleSupported, removeDetaches,
                   next_refresh_epoch, remaining, sub_title,
                   body, tasks, refresh_timer, tick_timer, last>>

\* The await of the body's mount ends: the footer is made and
\* self.mount(self.footer) is awaited.
BodyMounted ==
    /\ app = "mount_body"
    /\ app' = "mount_footer"
    /\ UNCHANGED <<key, client, subtitleSupported, removeDetaches,
                   next_refresh_epoch, remaining, sub_title,
                   body, tasks, refresh_timer, tick_timer, last>>

\* FooterMounted that sets the two intervals before the initial refresh
FooterMountedTimersFirst ==
    /\ app = "mount_footer"
    /\ app' = "mounting"
    /\ remaining' = REFRESH_EVERY
    /\ refresh_timer' = Units(REFRESH_EVERY)
    /\ tick_timer' = Units(1)
    /\ tasks' = Append(tasks, NewTask("on_mount"))
    /\ UNCHANGED <<key, client, subtitleSupported, removeDetaches,
                   next_refresh_epoch, sub_title,
                   body, last>>

\* The await of the footer's mount ends: the countdown is set and the
\* initial refresh is called, up to its fetch.
FooterMounted ==
    /\ app = "mount_footer"
    /\ app' = "mounting"
    /\ remaining' = REFRESH_EVERY
    /\ tasks' = Append(tasks, NewTask("on_mount"))
    /\ UNCHANGED <<key, client, subtitleSupported, removeDetaches,
                   next_refresh_epoch, sub_title,
                   body, refresh_timer, tick_timer, last>>

\* RefreshFire that tears the display down when the cycle starts
RefreshFireClears ==
    /\ Alive
    /\ Due(refresh_timer)
    /\ ~InCallback
    /\ refresh_timer' = refresh_timer + Units(REFRESH_EVERY)
    /\ tasks' = Append(tasks, NewTask("timer"))
    /\ body' = << >>
    /\ UNCHANGED <<app, key, client, subtitleSupported, removeDetaches,
                   next_refresh_epoch, remaining, sub_title, tick_timer, last>>

\* The refresh timer fires, on time or late, and is due again REFRESH_EVERY
\* seconds after the time it was due: refresh_widgets up to its fetch.  The
\* program itself has no guard against a second call; the timer does not
\* fire while it is inside its callback.
RefreshFire ==
    /\ Alive
    /\ Due(refresh_timer)
    /\ ~InCallback
    /\ refresh_timer' = refresh_timer + Units(REFRESH_EVERY)
    /\ tasks' = Append(tasks, NewTask("timer"))
    /\ UNCHANGED <<app, key, client, subtitleSupported, removeDetaches,
                   next_refresh_epoch,
                   remaining, sub_title, body, tick_timer, last>>

\* Tick that starts the countdown over when it has run out
TickWraps ==
    /\ Alive
    /\ Due(tick_timer)
    /\ tick_timer' = tick_timer + Units(1)
    /\ remaining' = IF PyInt(next_refresh_epoch) <= 0 THEN REFRESH_EVERY
                    ELSE PyInt(next_refresh_epoch)
    /\ UNCHANGED <<app, key, client, subtitleSupported, removeDetaches,
                   next_refresh_epoch,
                   sub_title, body, tasks, refresh_timer, last>>

\* Tick that waits until no refresh_widgets invocation is in flight
TickAfterRefresh ==
    /\ Alive
    /\ Due(tick_timer)
    /\ tasks = << >>
    /\ tick_timer' = tick_timer + Units(1)
    /\ remaining' = Max(0, PyInt(next_refresh_epoch))
    /\ UNCHANGED <<app, key, client, subtitleSupported, removeDetaches,
                   next_refresh_epoch,
                   sub_title, body, tasks, refresh_timer, last>>

\* Tick that starts the refresh itself when the countdown has run out
TickRefreshes ==
    /\ Alive
    /\ Due(tick_timer)
    /\ tick_timer' = tick_timer + Units(1)
    /\ remaining' = Max(0, PyInt(next_refresh_epoch))
    /\ tasks' = IF PyInt(next_refresh_epoch) <= 0 /\ tasks = << >>
                THEN Append(tasks, NewTask("timer")) ELSE tasks
    /\ UNCHANGED <<app, key, client, subtitleSupported, removeDetaches,
                   next_refresh_epoch,
                   sub_title, body, refresh_timer, last>>

\* The countdown timer fires, on time or late: _tick.
Tick ==
    /\ Alive
    /\ Due(tick_timer)
    /\ tick_timer' = tick_timer + Units(1)
    /\ remaining' = Max(0, PyInt(next_refresh_epoch))
    /\ UNCHANGED <<app, key, client, subtitleSupported, removeDetaches,
                   next_refresh_epoch,
                   sub_title, body, tasks, refresh_timer, last>>

\* The fetch of invocation i ends with resp after one of the FetchDelays, a
\* timeout no sooner than FetchTimeout seconds after it began (timeout=10
\* bounds each wait for the server, not the whole request): refresh_widgets
\* from the return of fetch_synchronizers to its next suspension, from
\* where `elapsed` counts the time of its removals and mounts.  When sorted() raises, the
\* application ends on the exception; whether the Textual build at hand
\* still delivers the unmount event, and so closes the client, is left open.
FetchReturn(i, resp) ==
    /\ Alive
    /\ i \in 1..Len(tasks)
    /\ tasks[i].pc = "fetch"
    /\ tasks[i].elapsed \in FetchDelays
    /\ resp.kind = "timeout" => tasks[i].elapsed >= Units(FetchTimeout)
    /\ LET r == fetch_synchronizers(resp)
       IN  IF r.raised \/ SortRaises(r.syncs)
           THEN /\ app' = "crashed"
                /\ client' \in {"open", "closed"}
                /\ tasks' = << >>
                /\ last' = Ended([tasks[i] EXCEPT !.resp = resp], "raised")
                /\ UNCHANGED <<next_refresh_epoch, remaining, sub_title, body,
                               refresh_timer, tick_timer>>
           ELSE LET n == NextChild([tasks[i] EXCEPT
                                      !.took = tasks[i].elapsed,
                                      !.elapsed = 0,
                                      !.resp = resp,
                                      !.syncs = Sorted(r.syncs.items),
                                      !.wallet = r.wallet,
                                      !.children = [j \in 1..Len(body) |-> RowId(body[j])],
                                      !.snapshot = {RowId(body[j]) : j \in 1..Len(body)}],
                                   body)
                IN  /\ client' = client
                    /\ sub_title' = update_header_wallet(r.wallet)
                    /\ body' = n.body
                    /\ Continue(i, n.task)
    /\ UNCHANGED <<key, subtitleSupported, removeDetaches>>

\* The await of child.remove() of invocation i ends and the child is gone
\* from the body, since the call or from now: the loop of _clear_body goes on.
Removed(i) ==
    /\ Alive
    /\ i \in 1..Len(tasks)
    /\ tasks[i].pc = "remove"
    /\ LET n == NextChild([tasks[i] EXCEPT !.children = Tail(@)],
                          RemoveRow(body, Head(tasks[i].children)))
       IN  body' = n.body /\ Continue(i, n.task)
    /\ UNCHANGED <<key, client, subtitleSupported, removeDetaches, sub_title>>

\* The await of body.mount(row) of invocation i ends: the card is made and
\* mounted in the row.
RowMounted(i) ==
    /\ Alive
    /\ i \in 1..Len(tasks)
    /\ tasks[i].pc = "mount_row"
    /\ LET n == MountWidget(tasks[i], body)
       IN  body' = n.body /\ Continue(i, n.task)
    /\ UNCHANGED <<key, client, subtitleSupported, removeDetaches, sub_title>>

\* The await of row.mount(widget) of invocation i ends: the loop of
\* _populate_sync_rows goes on with the next record.
CardMounted(i) ==
    /\ Alive
    /\ i \in 1..Len(tasks)
    /\ tasks[i].pc = "mount_card"
    /\ LET n == NextCard([tasks[i] EXCEPT !.idx = @ + 1], body)
       IN  body' = n.body /\ Continue(i, n.task)
    /\ UNCHANGED <<key, client, subtitleSupported, removeDetaches, sub_title>>

\* One time unit passes, whatever on_mount or the invocations in flight are
\* waiting for: the three mounts of on_mount take no longer than MaxRender
\* units together, no fetch longer than LongDelay, the removals and mounts of
\* an invocation no longer than MaxRender units, and no timer fires more than
\* MaxLate units late (the refresh timer, while its callback is in flight,
\* does not fire at all).
Advance ==
    /\ Alive
    /\ app \in OnMountAwaits => next_refresh_epoch > Units(REFRESH_EVERY) - MaxRender
    /\ \A i \in 1..Len(tasks) :
          tasks[i].elapsed < (IF tasks[i].pc = "fetch" THEN LongDelay ELSE MaxRender)
    /\ refresh_timer = NoTimer \/ refresh_timer > -MaxLate \/ InCallback
    /\ tick_timer = NoTimer \/ tick_timer > -MaxLate
    /\ tasks' = [i \in 1..Len(tasks) |-> [tasks[i] EXCEPT !.elapsed = @ + 1]]
    /\ next_refresh_epoch' = next_refresh_epoch - 1
    /\ refresh_timer' = IF refresh_timer = NoTimer THEN NoTimer ELSE refresh_timer - 1
    /\ tick_timer' = IF tick_timer = NoTimer THEN NoTimer ELSE tick_timer - 1
    /\ UNCHANGED <<app, key, client, subtitleSupported, removeDetaches,
                   remaining, sub_title, body,
                   last>>

\* Quit of an application without on_unmount: the client is never closed
QuitLeavesClient ==
    /\ Alive
    /\ app' = "closed"
    /\ tasks' = << >>
    /\ refresh_timer' = NoTimer
    /\ tick_timer' = NoTimer
    /\ UNCHANGED <<key, client, subtitleSupported, removeDetaches,
                   next_refresh_epoch, remaining, sub_title, body, last>>

\* The quit key: the application stops its timers and on_mount or the
\* refresh in flight and unmounts, and on_unmount closes the client; the
\* program itself touches no widget on the way.
Quit ==
    /\ Alive
    /\ app' = "closed"
    /\ client' = "closed"
    /\ tasks' = << >>
    /\ refresh_timer' = NoTimer
    /\ tick_timer' = NoTimer
    /\ UNCHANGED <<key, subtitleSupported, removeDetaches, next_refresh_epoch,
                   remaining, sub_title, body, last>>

(***************************************************************************)
(* The responses of the initial refresh alone                              *)
(***************************************************************************)
LongLists == SeqsUpTo({RecAlpha, RecBeta}, MaxLong)

SortRecords ==
    {Rec(id, name) :
        id \in {Str(StrOne), Str(StrTwo)},
        name \in {Missing, Str(EmptyStr), Str(StrAlpha), Str(StrBeta), Str(StrLowerA)}}

SortLists == SeqsUpTo(SortRecords, MaxSort)

FieldRecords ==
    {Obj(id, k, name, en) :
        id \in {Missing, Str(StrOne)}, k \in {Missing, Str(StrKey)},
        name \in {Missing, Str(StrAlpha)}, en \in {Missing, True, False}}

FieldLists ==
    {<<r>> : r \in FieldRecords} \cup {<<RecBeta, r>> : r \in FieldRecords}

\* names that are booleans, alone and next to a string; wallets of any kind
BoolNameLists ==
    {<<Rec(Str(StrOne), True), Rec(Str(StrTwo), False)>>,
     <<Rec(Str(StrOne), True), Rec(Str(StrTwo), True)>>,
     <<RecAlpha, Rec(Str(StrTwo), True)>>}

Wallets == {Owner(w) : w \in {Missing, Null, True, False, Str(EmptyStr)}}

\* what the fetch of the initial refresh may receive
RenderResponses ==
    (FailedResponses \ {Failure("timeout")}) \cup MalformedResponses
    \cup Successes(LongLists \cup SortLists \cup FieldLists, {WithWallet})
    \cup Successes(BoolNameLists, {WithWallet})
    \cup Successes({<<RecBeta, RecAlpha>>}, {NoOwner} \cup Wallets)

(***************************************************************************)
(* Specifications                                                          *)
(***************************************************************************)
Next ==
    \/ OnMount
    \/ HeaderMounted
    \/ BodyMounted
    \/ FooterMounted
    \/ RefreshFire
    \/ Tick
    \/ \E i \in 1..Len(tasks) :
          tasks[i].pc = "fetch" /\ \E resp \in TimedResponses : FetchReturn(i, resp)
    \/ \E i \in 1..Len(tasks) : Removed(i)
    \/ \E i \in 1..Len(tasks) : RowMounted(i)
    \/ \E i \in 1..Len(tasks) : CardMounted(i)
    \/ Advance
    \/ Quit

Spec == Init /\ [][Next]_vars

\* The initial refresh alone, over the larger set of responses.
NextRender ==
    \/ OnMount
    \/ HeaderMounted
    \/ BodyMounted
    \/ FooterMounted
    \/ \E i \in 1..Len(tasks) :
          tasks[i].pc = "fetch" /\ \E resp \in RenderResponses : FetchReturn(i, resp)
    \/ \E i \in 1..Len(tasks) : RowMounted(i)
    \/ \E i \in 1..Len(tasks) : CardMounted(i)

SpecRender == Init /\ [][NextRender]_vars

(***************************************************************************)
(* Properties                                                              *)
(***************************************************************************)
\* No invocation is past its fetch: the application runs and the invocation
\* in flight, if any, awaits its fetch.
AtRest == app = "running" /\ \A i \in 1..Len(tasks) : tasks[i].pc = "fetch"

\* no refresh_widgets invocation is in flight and one has returned
Idle == app = "running" /\ tasks = << >> /\ last.how = "done"

\* An invocation has ended, by returning or by raising, and none has begun
\* to render since.
Settled == last.how # "none" /\ (AtRest \/ app = "crashed")

\* the four kinds of failed fetch: transport error or timeout, non-2xx
\* status, a body that is not a JSON object, success not true
ErrorKind(resp) ==
    resp.kind # "json" \/ resp.top # "object" \/ resp.success # "true"

SaysSuccess(resp) ==
    resp.kind = "json" /\ resp.top = "object" /\ resp.success = "true"

AllObjects(syncs) ==
    syncs.t # "null" /\ \A i \in 1..Len(syncs.items) : syncs.items[i].obj

\* success true, but `owner` is no object or `synchronizers` no array of objects
ShapeDeviates(resp) ==
    SaysSuccess(resp) /\ (resp.owner.t = "other" \/ ~AllObjects(resp.synchronizers))

\* the expected envelope: names are strings where present
WellShaped(resp) ==
    /\ SaysSuccess(resp)
    /\ ~ShapeDeviates(resp)
    /\ \A i \in 1..Len(resp.synchronizers.items) :
          resp.synchronizers.items[i].name.t \in {"missing", "str"}

\* the name a record sorts by: the empty string when it has none
NameOf(item) == IF item.name.t = "missing" THEN Str(EmptyStr) ELSE item.name

\* ascending order of names: strings by code points, false before true
Ascending(u, v) ==
    \/ u.t = "str" /\ v.t = "str" /\ StrLess(u.s, v.s)
    \/ u.t = "false" /\ v.t = "true"

\* the place of items[i] in the ascending order by name that keeps the
\* input order of equal names
Rank(items, i) ==
    Cardinality({j \in 1..Len(items) : Ascending(NameOf(items[j]), NameOf(items[i]))})
    + Cardinality({j \in 1..i : NameOf(items[j]) = NameOf(items[i])})

\* the records of the displayed cards, row by row
Displayed == [k \in 1..Len(CardsOf(body)) |-> CardsOf(body)[k].data]

ShowsSorted(items) ==
    /\ Len(Displayed) = Len(items)
    /\ \A i \in 1..Len(items) : Displayed[Rank(items, i)] = items[i]

\* a step in which a refresh_widgets invocation returns
RefreshCompletes == app' = "running" /\ Len(tasks') < Len(tasks)

\* a step in which the countdown timer fires
TickFires == Due(tick_timer) /\ tick_timer' = tick_timer + Units(1)

\* the identities of the rows in rows
RowIds(rows) == {RowId(rows[j]) : j \in 1..Len(rows)}

\* the subtitle _update_header_wallet leaves for wallet
Subtitle(wallet) ==
    IF subtitleSupported /\ wallet.t \notin {"null", "missing", "false"}
                         /\ wallet # Str(EmptyStr)
    THEN wallet ELSE Str(EmptyStr)

\* C1 (as claimed): whenever the fetch of a refresh ends in a failure or in
\* an envelope of another shape, fetch_synchronizers returns no record and
\* no owner and the refresh returns without raising.
C1_NeverPropagates ==
    (last.how # "none" /\ (ErrorKind(last.resp) \/ ShapeDeviates(last.resp)))
        => (last.how = "done" /\ last.syncs = << >> /\ last.wallet = Null)

\* C2 (as claimed): once a refresh whose response says success true has
\* completed, the cards are the entries of `synchronizers`, as many, in
\* ascending order of name with equal names in input order.
C2_EverySuccess ==
    (AtRest /\ last.how = "done" /\ SaysSuccess(last.resp))
        => ShowsSorted(last.resp.synchronizers.items)

\* C2 (amended): once a refresh whose response says success true and whose
\* `owner` is absent or an object has completed, the cards are the entries
\* of `synchronizers`, as many, in ascending order of name (none: the empty
\* string) with equal names in input order; and the refresh does complete
\* when the response has the expected envelope.
C2_SortedCards ==
    /\ (AtRest /\ last.how = "done" /\ SaysSuccess(last.resp)
            /\ last.resp.owner.t # "other")
          => ShowsSorted(last.resp.synchronizers.items)
    /\ (Settled /\ WellShaped(last.resp)) => last.how = "done"

\* three cards that were rearranged, two of them with equal names, one
\* without a name
C2_Witness ==
    /\ AtRest /\ last.how = "done" /\ WellShaped(last.resp)
    /\ LET items == last.resp.synchronizers.items
       IN  /\ Len(items) = 3 /\ Displayed # items
           /\ \E i, j \in 1..3 : i < j /\ items[i] # items[j]
                                 /\ NameOf(items[i]) = NameOf(items[j])
           /\ \E i \in 1..3 : items[i].name.t = "missing"

\* C3: once a refresh whose fetch failed has completed, no card is displayed
\* and the owner subtitle is empty, at its completion and for as long as no
\* later refresh is past its fetch.
C3_DegradeToEmpty ==
    /\ []((AtRest /\ last.how = "done" /\ ErrorKind(last.resp))
             => (body = << >> /\ sub_title = Str(EmptyStr)))
    /\ [][(RefreshCompletes /\ ErrorKind(last'.resp))
             => (body' = << >> /\ sub_title' = Str(EmptyStr))]_vars

\* a periodic refresh has completed after a timeout; when its fetch returned
\* the row of the two cards, with the wallet as subtitle, was displayed
C3_Witness ==
    /\ Idle /\ last.caller = "timer" /\ last.resp.kind = "timeout"
    /\ last.cleared = 1 /\ subtitleSupported
    /\ body = << >> /\ sub_title = Str(EmptyStr)

\* a step of a refresh_widgets invocation whose fetch failed: the return of
\* the failed fetch, or the end of a removal after it
FailedFetchReturns ==
    \E i \in 1..Len(tasks), resp \in TimedResponses :
        ErrorKind(resp) /\ FetchReturn(i, resp)

FailedRefreshRemoves(i) ==
    tasks[i].pc = "remove" /\ ErrorKind(tasks[i].resp) /\ Removed(i)

\* the rows the invocation t has still to take away: those whose remove()
\* has not been called, and the one whose remove() is awaited where the
\* widget leaves its parent only then
ToRemove(t) ==
    {t.children[j] : j \in (IF removeDetaches = "call" THEN 2 ELSE 1)..Len(t.children)}

\* C4 (as claimed): the steps of a refresh whose fetch failed leave the rows
\* with their cards and the owner subtitle as they were displayed before it.
C4_KeepsPrevious ==
    [][(FailedFetchReturns \/ \E i \in 1..Len(tasks) : FailedRefreshRemoves(i))
          => (body' = body /\ sub_title' = sub_title)]_vars

\* C4 (amended): a refresh whose fetch failed does not keep the previous
\* screen.  The return of the failed fetch empties the owner subtitle, and
\* completes the refresh only when no row is displayed; past its fetch the
\* refresh is removing rows, the rows displayed are those it has still to
\* take away, and when it completes none is displayed - on the first run as
\* on any later one.
C4_PreviousCleared ==
    /\ [](\A i \in 1..Len(tasks) :
            (tasks[i].pc # "fetch" /\ ErrorKind(tasks[i].resp))
              => /\ tasks[i].pc = "remove"
                 /\ RowIds(body) = ToRemove(tasks[i]))
    /\ [][/\ FailedFetchReturns
             => /\ sub_title' = Str(EmptyStr)
                /\ RefreshCompletes => body = << >>
          /\ \A i \in 1..Len(tasks) :
                FailedRefreshRemoves(i)
                  => /\ Len(body') < Len(body) \/ removeDetaches = "call"
                     /\ RefreshCompletes => body' = << >>]_vars

\* a periodic refresh whose fetch timed out has taken away the first of the
\* two rows that were displayed, and the subtitle
C4_Witness ==
    /\ app = "running" /\ Len(tasks) = 1 /\ tasks[1].caller = "timer"
    /\ tasks[1].pc = "remove" /\ tasks[1].resp.kind = "timeout"
    /\ Cardinality(tasks[1].snapshot) = 2 /\ Len(body) = 1
    /\ Len(last.syncs) = 4 /\ sub_title = Str(EmptyStr)

\* C5: in every step that is not the completion of a refresh the displayed
\* countdown does not increase, and it is never below 0.
C5_CountdownNonIncreasing ==
    [][~RefreshCompletes => (remaining' <= remaining /\ remaining' >= 0)]_vars

\* the deadline has passed during a fetch and a tick has shown 0
C5_Witness ==
    /\ app = "running" /\ remaining = 0 /\ next_refresh_epoch < -Units(1)
    /\ tick_timer = Units(1)

\* C6: the completion of a refresh, failed or not, sets the deadline
\* REFRESH_EVERY seconds ahead and the countdown to REFRESH_EVERY; no other
\* step brings the countdown back to REFRESH_EVERY or moves the deadline
\* (its distance shrinks only as time passes).
C6_ResetExactlyAtCompletion ==
    [][/\ RefreshCompletes =>
            (next_refresh_epoch' = Units(60) /\ remaining' = 60)
       /\ ~RefreshCompletes =>
            /\ remaining' = 60 => remaining = 60
            /\ \/ next_refresh_epoch' = next_refresh_epoch
               \/ Advance /\ next_refresh_epoch' = next_refresh_epoch - 1]_vars

\* a periodic refresh whose fetch failed has just reset the countdown, which
\* had run down to 0
C6_Witness ==
    /\ Idle /\ last.caller = "timer" /\ ErrorKind(last.resp)
    /\ remaining = 60 /\ next_refresh_epoch = Units(60)
    /\ refresh_timer < Units(60)

\* C7: until the initial refresh has completed no timer is set and the
\* initial refresh is the only one; the timers are set in the step that
\* completes it, and a timer fires only after that.
C7_InitialRefreshFirst ==
    /\ [](app \in {"init", "mounting"} \cup OnMountAwaits =>
            /\ refresh_timer = NoTimer /\ tick_timer = NoTimer
            /\ last.how = "none"
            /\ Len(tasks) = (IF app = "mounting" THEN 1 ELSE 0)
            /\ \A i \in 1..Len(tasks) : tasks[i].caller = "on_mount")
    /\ [][/\ (tick_timer = NoTimer /\ tick_timer' # NoTimer) \/
             (refresh_timer = NoTimer /\ refresh_timer' # NoTimer)
               => /\ last.how = "none" /\ last'.how = "done"
                  /\ last'.caller = "on_mount" /\ tasks' = << >>
                  /\ tick_timer' = Units(1) /\ refresh_timer' = Units(60)
          /\ (Tick \/ RefreshFire) => (last.how # "none" /\ app = "running")]_vars

\* the initial refresh has just completed, after a fetch of 13.5 s and a
\* mount that took time, and the two timers are set
C7_Witness ==
    /\ app = "running" /\ last.how = "done" /\ last.caller = "on_mount"
    /\ tick_timer = Units(1) /\ refresh_timer = Units(60) /\ body # << >>

\* C8: after a refresh whose fetch failed the application has not stopped,
\* both timers are set and fire when due (the refresh timer once the call
\* it made has returned), the refresh timer's fire starts a new invocation,
\* and the timers, the clock or a refresh can take a step.
C8_LoopContinues ==
    (last.how # "none" /\ ErrorKind(last.resp))
        => /\ last.how = "done"
           /\ app \in {"running", "closed"}
           /\ app = "running" =>
                /\ tick_timer \in -MaxLate..Units(1)
                /\ refresh_timer <= Units(REFRESH_EVERY)
                /\ tasks = << >> => refresh_timer >= -MaxLate
                /\ Due(tick_timer) => ENABLED Tick
                /\ (Due(refresh_timer) /\ tasks = << >>) => ENABLED RefreshFire
                /\ ENABLED (Tick \/ RefreshFire \/ Advance
                            \/ (\E i \in 1..Len(tasks), resp \in TimedResponses :
                                   FetchReturn(i, resp))
                            \/ (\E i \in 1..Len(tasks) : Removed(i))
                            \/ (\E i \in 1..Len(tasks) : RowMounted(i))
                            \/ (\E i \in 1..Len(tasks) : CardMounted(i)))

\* after a failed fetch the next periodic refresh has fetched and mounts cards
C8_Witness ==
    /\ last.how = "done" /\ ErrorKind(last.resp) /\ app = "running"
    /\ \E i \in 1..Len(tasks) :
          /\ tasks[i].caller = "timer" /\ tasks[i].pc = "mount_card"
          /\ ~ErrorKind(tasks[i].resp)

\* C9: after a completed refresh with N records there are ceil(N/3) rows,
\* none empty, none with more than 3 cards, all but the last with 3.
C9_RowsOfThree ==
    (AtRest /\ last.how = "done")
        => /\ Len(CardsOf(body)) = Len(last.syncs)
           /\ Len(body) = (Len(last.syncs) + 2) \div 3
           /\ \A j \in 1..Len(body) :
                 /\ Len(body[j].cards) \in 1..3
                 /\ j < Len(body) => Len(body[j].cards) = 3

\* seven records in three rows, the last with one card
C9_Witness ==
    /\ AtRest /\ last.how = "done" /\ Len(last.syncs) = 7
    /\ Len(body) = 3 /\ Len(body[3].cards) = 1

\* what a card is to show for a field: the em-dash when it is missing, else
\* the value itself
Expected(v) ==
    CASE v.t = "missing" -> <<8212>>
      [] v.t = "str" -> v.s
      [] v.t = "true" -> <<84, 114, 117, 101>>
      [] v.t = "false" -> <<70, 97, 108, 115, 101>>
      [] OTHER -> StrNone

ShowsFields(card) ==
    \A f \in 1..Len(Fields) : card.shown[f] = Expected(card.data[Fields[f]])

\* C10: after the initial refresh with a response of the expected envelope
\* every record, whichever of its fields are missing, is displayed as a card
\* that shows the placeholder for each missing field and the value of each
\* other.
C10_MissingFieldsShown ==
    (Settled /\ WellShaped(last.resp))
        => /\ last.how = "done"
           /\ Len(CardsOf(body)) = Len(last.resp.synchronizers.items)
           /\ \A i \in 1..Len(last.resp.synchronizers.items) :
                 \E k \in 1..Len(CardsOf(body)) :
                    /\ CardsOf(body)[k].data = last.resp.synchronizers.items[i]
                    /\ ShowsFields(CardsOf(body)[k])

\* a card of a record without key and name, with id and isEnabled false
C10_Witness ==
    /\ AtRest /\ last.how = "done"
    /\ \E k \in 1..Len(CardsOf(body)) :
          /\ CardsOf(body)[k].data = Obj(Str(StrOne), Missing, Missing, False)
          /\ CardsOf(body)[k].shown = <<StrOne, Placeholder, Placeholder, StrFalse>>

\* C11 (as claimed): what a tick displays while no refresh is in flight is
\* the whole seconds to the next fire of the refresh timer, 0 at least; and a
\* countdown that shows 0 while the refresh timer is still to fire is less
\* than a second ahead of it.
C11_ShowsTimeToNextFire ==
    [][/\ (Tick /\ tasks = << >>) => remaining' = Max(0, PyInt(refresh_timer))
       /\ (app' = "running" /\ tasks' = << >> /\ remaining' = 0)
             => refresh_timer' <= Units(1)]_vars

\* the time the fetch of invocation t has taken: so far, or when it returned
FetchTook(t) == IF t.pc = "fetch" THEN t.elapsed ELSE t.took

\* C12: at most one refresh_widgets invocation is in flight and one starts
\* only when none is in flight; and under the stated timing this is a matter
\* of the program's own numbers: while an invocation is in flight whose
\* fetch has taken no longer than the FetchTimeout seconds of its timeout,
\* the refresh timer is not due (during the initial invocation it is not
\* set at all), so that the timer falls due during an invocation, and has
\* to wait for it, only when that one's fetch has outlasted the timeout.
C12_OneInFlight ==
    /\ [](Len(tasks) <= 1)
    /\ [](\A i \in 1..Len(tasks) :
             /\ tasks[i].caller = "on_mount" => refresh_timer = NoTimer
             /\ FetchTook(tasks[i]) <= Units(FetchTimeout) => ~Due(refresh_timer))
    /\ [][Len(tasks') > Len(tasks) => tasks = << >>]_vars

\* a periodic refresh after another periodic one, its fetch returned after
\* the full FetchTimeout seconds, is at its removals and mounts, and the
\* refresh timer is still to fall due
C12_Witness ==
    /\ app = "running" /\ Len(tasks) = 1 /\ tasks[1].caller = "timer"
    /\ tasks[1].pc # "fetch" /\ tasks[1].took = Units(FetchTimeout)
    /\ last.how = "done" /\ last.caller = "timer"
    /\ refresh_timer > 0 /\ refresh_timer <= Units(REFRESH_EVERY) - Units(FetchTimeout)

\* C13: a tick that is due while a refresh is suspended, in its fetch or in
\* a removal or a mount, can fire; a tick changes nothing a refresh reads
\* or writes before it completes (the invocation in flight, the rows and
\* cards, the subtitle, the deadline), so the refresh goes on as without
\* the tick; and the completion sets the deadline REFRESH_EVERY seconds
\* ahead and the countdown to REFRESH_EVERY whatever the ticks displayed.
C13_TicksInterleaveHarmlessly ==
    /\ []((app = "running" /\ tasks # << >> /\ Due(tick_timer)) => ENABLED Tick)
    /\ [][/\ (TickFires /\ tasks # << >>)
             => (tasks' = tasks /\ body' = body /\ sub_title' = sub_title
                 /\ next_refresh_epoch' = next_refresh_epoch /\ last' = last)
          /\ RefreshCompletes
             => (next_refresh_epoch' = Units(REFRESH_EVERY)
                 /\ remaining' = REFRESH_EVERY)]_vars

\* a periodic refresh has just completed with two cards after a fetch of
\* 13.5 seconds, during which ticks brought the countdown down
C13_Witness ==
    /\ Idle /\ last.caller = "timer" /\ Len(CardsOf(body)) = 2
    /\ remaining = REFRESH_EVERY /\ next_refresh_epoch = Units(REFRESH_EVERY)
    /\ refresh_timer = Units(REFRESH_EVERY) - Units(FetchTimeout) - Units(7) \div 2

\* C14: a fire of the countdown timer sets the displayed countdown to the
\* whole seconds to the deadline, 0 at least, and nothing else: it starts no
\* refresh_widgets invocation and moves none on, and it leaves the deadline,
\* the rows and cards, the subtitle, the key, the client and the refresh
\* timer as they are, also when the value it computes is 0.
C14_TickOnlyFooter ==
    [][TickFires
         => /\ remaining' = Max(0, PyInt(next_refresh_epoch))
            /\ tasks' = tasks
            /\ UNCHANGED <<next_refresh_epoch, body, sub_title, key, client,
                           app, refresh_timer, last>>]_vars

\* a tick has just shown 0 at the moment the refresh timer is due, and no
\* refresh has started
C14_Witness ==
    /\ Idle /\ remaining = 0 /\ tick_timer = Units(1) /\ refresh_timer = 0

\* what rows displays, whichever widgets display it: the cards row by row
Contents(rows) == [j \in 1..Len(rows) |-> rows[j].cards]

\* the rows of cards _populate_sync_rows builds for the sorted records syncs
Grid(syncs) ==
    [k \in 1..((Len(syncs) + RowWidth - 1) \div RowWidth) |->
        [c \in 1..(IF k * RowWidth <= Len(syncs) THEN RowWidth
                   ELSE Len(syncs) - (k - 1) * RowWidth) |->
            SynchronizerWidget(syncs[(k - 1) * RowWidth + c])]]

\* C15: after a completed refresh no row that was displayed when its fetch
\* returned, and so none of the cards in those rows, is displayed, and every
\* displayed row was mounted by this refresh; the rows and the cards follow
\* from the sorted records alone and the subtitle from the wallet alone (so
\* that a second refresh with the same fetch result leaves the same display).
C15_TotalRebuild ==
    /\ []((AtRest /\ last.how = "done")
             => /\ \A j, m \in 1..Len(body) : body[j].gen = body[m].gen
                /\ Contents(body) = Grid(last.syncs)
                /\ sub_title = Subtitle(last.wallet))
    /\ [][RefreshCompletes
             => /\ RowIds(body') \cap tasks[1].snapshot = {}
                /\ \A j \in 1..Len(body') : body'[j].gen = tasks[1].gen]_vars

\* a periodic refresh has replaced two displayed rows by two new rows of
\* four cards
C15_Witness ==
    /\ Idle /\ last.caller = "timer"
    /\ last.cleared = 2 /\ Len(last.syncs) = 4 /\ Len(body) = 2

\* C16: the client is open from construction for as long as the
\* application mounts or runs, and closed once the application has quit; an
\* invocation is in flight, and a fetch begins, only on the open client; the
\* client changes only by being closed, in the step that ends the
\* application, and once closed it stays closed and no fetch begins.
C16_ClientLifetime ==
    /\ [](/\ app \in {"init", "mounting", "running"} \cup OnMountAwaits
               => client = "open"
          /\ app = "closed" => client = "closed"
          /\ tasks # << >> => client = "open")
    /\ [][/\ Len(tasks') > Len(tasks) => (client = "open" /\ client' = "open")
          /\ client' # client
               => (client = "open" /\ client' = "closed" /\ Alive
                   /\ app' \in {"closed", "crashed"})
          /\ client = "closed" => (client' = "closed" /\ tasks' = << >>)]_vars

\* the application was quit after a periodic refresh and the client is closed
C16_Witness ==
    /\ app = "closed" /\ client = "closed" /\ tasks = << >>
    /\ last.how = "done" /\ last.caller = "timer"

\* C17: the displayed countdown is an integer from 0 to REFRESH_EVERY in
\* every state, and the deadline is never more than REFRESH_EVERY seconds
\* ahead.
C17_CountdownInRange ==
    /\ remaining \in 0..REFRESH_EVERY
    /\ next_refresh_epoch <= Units(REFRESH_EVERY)

\* a fetch has lasted a refresh period and more, the deadline is as far in
\* the past, and the countdown shows 0
C17_Witness ==
    /\ app = "running" /\ remaining = 0
    /\ next_refresh_epoch = -LongDelay
    /\ \E i \in 1..Len(tasks) : tasks[i].pc = "fetch" /\ tasks[i].elapsed = LongDelay

\* C18: while the application runs and no invocation is past its fetch, the
\* cards and the subtitle are those of one fetch result, the result of the
\* refresh that completed last: the cards are its records, sorted, and the
\* subtitle is its wallet.  A subtitle of another fetch result than the
\* cards' is displayed only while an invocation is past its fetch.
C18_SubtitleAndCardsOfOneFetch ==
    (app = "running" /\ last.how = "done")
        => LET r == fetch_synchronizers(last.resp)
               one == /\ Displayed = Sorted(r.syncs.items)
                      /\ sub_title = Subtitle(r.wallet)
           IN  /\ AtRest => one
               /\ ~one => \E i \in 1..Len(tasks) :
                             tasks[i].pc \in {"remove", "mount_row", "mount_card"}

\* no refresh is in flight, and the periodic refresh that completed last has
\* replaced both the four cards and the empty subtitle
C18_Witness ==
    /\ Idle /\ last.caller = "timer"
    /\ sub_title = Str(StrWallet) /\ Len(CardsOf(body)) = 2
    /\ last.cleared = 2

\* C19: the fire of the refresh timer and every step during which the fetch
\* it began is outstanding leave the rows, the cards and the subtitle
\* unchanged and the deadline at the same time; rows are removed or mounted
\* only by an invocation whose fetch has returned.
C19_DisplayKeptDuringFetch ==
    [][/\ (RefreshFire \/ \E i \in 1..Len(tasks), j \in 1..Len(tasks') :
                              /\ tasks[i].pc = "fetch" /\ tasks'[j].pc = "fetch"
                              /\ tasks'[j].gen = tasks[i].gen)
            => /\ body' = body /\ sub_title' = sub_title
               /\ \/ next_refresh_epoch' = next_refresh_epoch
                  \/ Advance /\ next_refresh_epoch' = next_refresh_epoch - 1
       /\ body' # body
            => \E i \in 1..Len(tasks) :
                  \/ tasks[i].pc \in {"remove", "mount_row", "mount_card"}
                  \/ tasks[i].pc = "fetch" /\ tasks' # tasks /\ app' # "closed"]_vars

\* five seconds into the fetch of a periodic refresh the two cards and the
\* subtitle of the cycle before are displayed, and ticks have counted down
C19_Witness ==
    /\ app = "running" /\ Len(tasks) = 1 /\ tasks[1].caller = "timer"
    /\ tasks[1].pc = "fetch" /\ tasks[1].elapsed = Units(5)
    /\ Len(CardsOf(body)) = 2 /\ sub_title = Str(StrWallet)
    /\ remaining < REFRESH_EVERY

====
